---- MODULE Spec2Model ----
(***************************************************************************)
(* Model of tap_mixpanel/sync.py: the endpoint synchronisation engine.     *)
(*                                                                         *)
(* sync() walks the selected streams; for each stream sync_endpoint plans  *)
(* date windows, resolves the parent records, drives the page loop, hands  *)
(* every page to process_records and writes the bookmark at the end of     *)
(* each window.  Datetimes are integers counted in fractions of a day      *)
(* (UnitsPerDay units per day), so that "whole days" (timedelta.days) and  *)
(* the exact difference of two datetimes are different things.             *)
(***************************************************************************)
EXTENDS Integers, Sequences, FiniteSets, TLC

\* ------------------------------------------------------------------ bounds
\* Resolution of the clock: units per day.
UnitsPerDay == 2
\* Longest record list one response carries.
MaxRecords == 2

\* ------------------------------------------------------- program constants
\* sync.py:156-157  one-year maximum look-back, in days
MaxLookbackDays == 365
\* sync.py:147-148  default days_interval when the configured one is falsy
DefaultDaysInterval == 30
\* sync.py:216  limit = 250 # Default page_size
limit == 250

\* Python's None for integer-valued and string-valued places.
NoValue == 0 - 1
None == "None"

Days(n) == n * UnitsPerDay

\* utils.now() of sync.py:142, one sample.
now_datetime == Days(1000)

\* ------------------------------------------------------------ stream table
\* The endpoint configurations the runs are given, one per stream name, as
\* the flags sync_endpoint branches on (sync.py:121-131, sync.py:390):
\*   bookmark_query : bookmark_query_field_from and bookmark_query_field_to
\*   parent         : parent_path and parent_id_field
\*   bookmark_field : replication_keys holds a cursor field
\*   pagination, date_dictionary
\*   data_key_root  : data_key is None or '.'
STREAMS ==
  [ export |->
      [bookmark_query |-> TRUE, parent |-> FALSE, bookmark_field |-> TRUE,
       pagination |-> FALSE, date_dictionary |-> FALSE, data_key_root |-> FALSE],
    funnels |->
      [bookmark_query |-> TRUE, parent |-> TRUE, bookmark_field |-> TRUE,
       pagination |-> FALSE, date_dictionary |-> TRUE, data_key_root |-> FALSE],
    engage |->
      [bookmark_query |-> FALSE, parent |-> FALSE, bookmark_field |-> FALSE,
       pagination |-> TRUE, date_dictionary |-> FALSE, data_key_root |-> FALSE],
    cohorts |->
      [bookmark_query |-> FALSE, parent |-> FALSE, bookmark_field |-> FALSE,
       pagination |-> FALSE, date_dictionary |-> FALSE, data_key_root |-> TRUE],
    cohort_members |->
      [bookmark_query |-> FALSE, parent |-> TRUE, bookmark_field |-> FALSE,
       pagination |-> TRUE, date_dictionary |-> FALSE, data_key_root |-> FALSE] ]

StreamNames == DOMAIN STREAMS

\* ----------------------------------------------------------------- inputs
\* catalog.get_selected_streams(state), sync.py:376-378
SelectedStreamLists ==
  { <<>>, <<"export">>, <<"funnels">>, <<"engage">>, <<"cohorts">>,
    <<"cohort_members">>, <<"cohorts", "export">>, <<"export", "cohorts">> }

\* config attribution_window and date_window_size, sync.py:401-402
AttributionWindows == {0, 5, 400}
DateWindowSizes == {0, 300}

\* How long before now the checkpoint (bookmark or start_date) lies.
RecentAges == {0, Days(5) - 1, Days(5), Days(5) + 1, Days(40) + 1}
OldAges == {Days(365) - 1, Days(365), Days(366) + 1}

UsesDateRange(sel) ==
  \E k \in 1..Len(sel) : STREAMS[sel[k]].bookmark_query

\* The configurations a run is started with.  The default 30-day window is
\* taken with recent checkpoints and short attribution windows only, which
\* keeps the number of windows of one run small; a run that syncs no stream
\* with a date range reads neither attribution_window nor date_window_size,
\* so one value of each is enough for it.
Configs(sel) ==
  IF UsesDateRange(sel)
  THEN { c \in [age : RecentAges \cup OldAges, aw : AttributionWindows,
                dws : DateWindowSizes] :
           c.dws = 0 => (c.age \in RecentAges /\ c.aw <= 5) }
  ELSE [age : {0, Days(5) - 1}, aw : {5}, dws : {0}]

\* Parent listings returned by the parent endpoint, as sequences of ids.
ParentListings == { <<>>, <<"p1">>, <<"p2", "p1">> }

\* Continuation tokens a response can carry.
Tokens == {"t1", "t2"}
\* Totals a response can declare.
Totals == {10, 500}


\* ----------------------------------------------------------- Bookmark Store
Absent == "absent"

\* sync.py:34-41
get_bookmark(st, stream, default) ==
  IF st.bookmarks[stream] = NoValue THEN default ELSE st.bookmarks[stream]

\* Mutant of write_bookmark: the value is stored for every stream.
write_bookmark_every_stream(st, stream, value) ==
  [st EXCEPT !.bookmarks = [s \in StreamNames |-> value]]

\* Mutant of write_bookmark: the bookmark is left as it is.
write_bookmark_not_stored(st, stream, value) == st

\* sync.py:44-47 (the in-memory update; the caller persists the result)
write_bookmark(st, stream, value) ==
  [st EXCEPT !.bookmarks[stream] = value]

\* Mutant of update_currently_syncing: the marker is cleared but never set.
update_currently_syncing_clear_only(st, stream_name) ==
  IF stream_name = None THEN [st EXCEPT !.currently_syncing = Absent]
  ELSE st

\* Mutant of update_currently_syncing: clearing leaves the state as it is.
update_currently_syncing_set_only(st, stream_name) ==
  IF stream_name = None THEN st
  ELSE [st EXCEPT !.currently_syncing = stream_name]

\* sync.py:363-367 (the in-memory update; the caller persists the result)
update_currently_syncing(st, stream_name) ==
  IF stream_name = None /\ st.currently_syncing # Absent
  THEN [st EXCEPT !.currently_syncing = Absent]
  ELSE [st EXCEPT !.currently_syncing = stream_name]

\* singer.get_currently_syncing, used at sync.py:374
get_currently_syncing(st) ==
  IF st.currently_syncing = Absent THEN None ELSE st.currently_syncing

\* --------------------------------------------------------- Record Processor
\* A transformed record: its cursor value (NoValue when it has no cursor
\* field) and whether every identifying field holds a non-empty value.
HasCursor(rec) == rec.cursor # NoValue

\* Mutant of raise_max_bookmark_value: the last record with a cursor wins.
raise_max_last_wins(rec, bookmark_field, max_bookmark_value) ==
  IF bookmark_field /\ HasCursor(rec) THEN rec.cursor ELSE max_bookmark_value

\* Mutant of raise_max_bookmark_value: the accumulator is never raised.
raise_max_never(rec, bookmark_field, max_bookmark_value) ==
  max_bookmark_value

\* sync.py:87-90  raise the accumulator when the record's cursor is higher
raise_max_bookmark_value(rec, bookmark_field, max_bookmark_value) ==
  IF bookmark_field /\ HasCursor(rec)
  THEN IF max_bookmark_value = NoValue \/ rec.cursor > max_bookmark_value
       THEN rec.cursor
       ELSE max_bookmark_value
  ELSE max_bookmark_value

\* Mutant of keep_record: the cutoff is strict.
keep_record_strict(rec, bookmark_field, last_datetime) ==
  IF bookmark_field /\ HasCursor(rec)
  THEN rec.cursor > last_datetime
  ELSE TRUE

\* sync.py:92-102  is the record written to the sink
keep_record(rec, bookmark_field, last_datetime) ==
  IF bookmark_field /\ HasCursor(rec)
  THEN rec.cursor >= last_datetime
  ELSE TRUE

\* sync.py:58-104  returns the accumulator and the records emitted, in order
RECURSIVE process_records(_, _, _, _)
process_records(records, bookmark_field, max_bookmark_value, last_datetime) ==
  IF records = <<>>
  THEN [max_bookmark_value |-> max_bookmark_value, emitted |-> <<>>]
  ELSE LET rec == Head(records)
           m == raise_max_bookmark_value(rec, bookmark_field, max_bookmark_value)
           rest == process_records(Tail(records), bookmark_field, m, last_datetime)
       IN  [max_bookmark_value |-> rest.max_bookmark_value,
            emitted |-> IF keep_record(rec, bookmark_field, last_datetime)
                        THEN <<rec>> \o rest.emitted
                        ELSE rest.emitted]

\* ------------------------------------------------------------ Window Planner
\* timedelta.days: whole days of a difference (floor)
WholeDays(diff) == diff \div UnitsPerDay

\* Mutant of clamp_delta_days: no attribution-window floor.
clamp_delta_days_no_floor(delta_days, attribution_window) ==
  IF delta_days >= MaxLookbackDays THEN MaxLookbackDays ELSE delta_days

\* Mutant of clamp_delta_days: no one-year cap.
clamp_delta_days_no_cap(delta_days, attribution_window) ==
  IF delta_days <= attribution_window THEN attribution_window ELSE delta_days

\* sync.py:151-159
clamp_delta_days(delta_days, attribution_window) ==
  IF delta_days <= attribution_window THEN attribution_window
  ELSE IF delta_days >= MaxLookbackDays THEN MaxLookbackDays
  ELSE delta_days

\* sync.py:147-148 and sync.py:168-169
\* (timedelta.seconds is the part of the difference below one day)
plan_days_interval(cfg, days_interval, last_datetime) ==
  IF cfg.bookmark_query
  THEN IF days_interval = 0 THEN DefaultDaysInterval ELSE days_interval
  ELSE IF (now_datetime - last_datetime) % UnitsPerDay = 0 THEN 0 ELSE 1

\* sync.py:150-161 and sync.py:166
plan_start_window(cfg, last_datetime, attribution_window) ==
  IF cfg.bookmark_query
  THEN now_datetime
       - Days(clamp_delta_days(WholeDays(now_datetime - last_datetime),
                               attribution_window))
  ELSE last_datetime

\* Mutant of next_end_window: the end is not capped at now.
next_end_window_uncapped(end_window, days_interval) ==
  end_window + Days(days_interval)

\* sync.py:343-347 (and, from the first start, sync.py:162-164)
next_end_window(end_window, days_interval) ==
  IF end_window + Days(days_interval) > now_datetime
  THEN now_datetime
  ELSE end_window + Days(days_interval)

\* sync.py:162-164 and sync.py:167
plan_end_window(cfg, start_window, days_interval) ==
  IF cfg.bookmark_query
  THEN next_end_window(start_window, days_interval)
  ELSE now_datetime

\* ---------------------------------------------------------- Parent Resolver
\* Mutant of resolve_parent_data: the synthetic parent for every stream.
resolve_parent_data_synthetic(cfg, listing) == <<"none">>

\* Mutant of resolve_parent_data: the listing for every stream.
resolve_parent_data_listing(cfg, listing) == listing

\* sync.py:193-207  the parent records the page loop is run for
resolve_parent_data(cfg, listing) ==
  IF cfg.parent THEN listing ELSE <<"none">>

\* -------------------------------------------------------- Pagination Driver
\* Mutant of continue_paging: the offset is not compared with the total.
continue_paging_token_only(offset, total_records, session_id) ==
  session_id # None

\* sync.py:222
continue_paging(offset, total_records, session_id) ==
  offset <= total_records /\ session_id # None

\* Mutant of parents_exhausted: the parent loop stops one parent early.
parents_exhausted_early(parent_idx, parent_data) ==
  parent_idx >= Len(parent_data)

\* sync.py:209  the parent loop has handed every parent to the page loop
parents_exhausted(parent_idx, parent_data) ==
  parent_idx > Len(parent_data)

\* sync.py:177-190 and sync.py:219-220: params aliases static_params, so
\* what one iteration stores stays for the next.
window_params(cfg, params, start_window, end_window) ==
  IF cfg.bookmark_query
  THEN [params EXCEPT !.from_date = start_window \div UnitsPerDay,
                      !.to_date = end_window \div UnitsPerDay]
  ELSE params

\* sync.py:223-225
page_params(cfg, params, page, session_id) ==
  IF cfg.pagination /\ page # 0
  THEN [params EXCEPT !.session_id = session_id, !.page = page]
  ELSE params

\* sync.py:250 and sync.py:261-279: the record list taken from a response.
\* A response is falsy ("empty"), a dict or a bare list; data.records is
\* what transform_json yields for the list under the data key (for a dict)
\* or for the list itself.
transformed_data(cfg, data) ==
  IF data.kind = "empty" THEN <<>>
  ELSE IF cfg.data_key_root THEN data.records
  ELSE IF data.kind = "dict" THEN data.records
  ELSE <<>>

\* sync.py:261-271: a date dictionary is rebuilt as a dict that holds the
\* data key only, so its total and session_id are gone.
is_rebuilt(cfg, data) == cfg.date_dictionary /\ data.kind = "dict"

\* Mutant of date_dictionary_results: the summary entry is kept.
RECURSIVE date_dictionary_results_keep_overall(_)
date_dictionary_results_keep_overall(items) ==
  IF items = <<>> THEN <<>>
  ELSE << [items[1].val EXCEPT !.date = items[1].key,
                               !.datetime = items[1].key \o "T00:00:00Z"] >>
         \o date_dictionary_results_keep_overall(Tail(items))

\* sync.py:262-270: the list built from the items of data[data_key], a
\* dictionary keyed by date, in the order of its keys.
RECURSIVE date_dictionary_results(_)
date_dictionary_results(items) ==
  IF items = <<>> THEN <<>>
  ELSE LET key == items[1].key
           val == items[1].val
           results_list == date_dictionary_results(Tail(items))
       IN  IF key # "$overall"
           THEN << [val EXCEPT !.date = key,
                               !.datetime = key \o "T00:00:00Z"] >>
                  \o results_list
           ELSE results_list

\* Mutant of page0_total_records: the declared total is not read.
page0_total_records_counted(cfg, data, record_count) == record_count

\* sync.py:308-312
page0_total_records(cfg, data, record_count) ==
  IF data.kind = "dict"
  THEN IF is_rebuilt(cfg, data) \/ data.total = NoValue
       THEN record_count
       ELSE data.total
  ELSE record_count

\* sync.py:313-314
next_session_id(cfg, data, session_id) ==
  IF data.kind = "dict"
  THEN IF is_rebuilt(cfg, data) THEN None ELSE data.session_id
  ELSE session_id

\* Mutant of missing_key: a record without its identifying field passes.
missing_key_never(records) == FALSE

\* sync.py:286-293
missing_key(records) ==
  \E k \in 1..Len(records) : ~records[k].id_ok


\* ------------------------------------------------------------ API responses
\* Cursor values of the records of a response, around the checkpoint.  A
\* stream without a cursor field may still carry a time in its records,
\* unless it is read per parent (the members of a cohort carry none).
Cursors(cfg, last) ==
  IF cfg.bookmark_field
  THEN {NoValue, last - 1, last, last + 1}
  ELSE IF cfg.parent THEN {NoValue}
  ELSE {NoValue, last + 1}

Records(cfg, last) ==
  { [cursor |-> c, id_ok |-> TRUE] : c \in Cursors(cfg, last) }
    \cup { [cursor |-> NoValue, id_ok |-> FALSE] }

RecordLists(cfg, last, n) ==
  UNION { [1..k -> Records(cfg, last)] : k \in 0..n }

\* A bare list read at the root can be a long one: data.more counts the
\* records it holds after data.records, all with their identifying fields
\* and without a cursor (process_records writes each of them).
MoreRecords(cfg, r) ==
  IF cfg.data_key_root /\ r # <<>> THEN {0, limit} ELSE {0}

\* Paginating endpoints answer with a declared total and a session id;
\* the other endpoints answer with the records alone.
Responses(cfg, last) ==
  { [kind |-> "empty", records |-> <<>>, total |-> NoValue, session_id |-> None,
     more |-> 0] }
  \cup
  { [kind |-> "dict", records |-> r, total |-> t, session_id |-> sid,
     more |-> 0] :
      r \in RecordLists(cfg, last, MaxRecords),
      t \in IF cfg.pagination THEN Totals \cup {NoValue} ELSE {NoValue},
      sid \in IF cfg.pagination THEN Tokens \cup {None} ELSE {None} }
  \cup
  UNION { { [kind |-> "list", records |-> r, total |-> NoValue,
             session_id |-> None, more |-> m] : m \in MoreRecords(cfg, r) } :
      r \in RecordLists(cfg, last, IF cfg.data_key_root THEN MaxRecords ELSE 1) }

\* ------------------------------------------------------------------- state
VARIABLES
  selected_streams,    \* sync.py:376-378
  start_date,          \* config start_date
  attribution_window,  \* config attribution_window
  date_window_size,    \* config date_window_size
  state,               \* the in-memory state object
  persisted,           \* the state last handed to singer.write_state
  pc,                  \* position of the control thread
  stream_idx,          \* index of the stream being synced (sync.py:385)
  last_datetime,       \* sync.py:136
  max_bookmark_value,  \* sync.py:137
  days_interval,       \* sync.py:147-148, 169
  start_window,        \* sync.py:161, 166, 342
  end_window,          \* sync.py:162-167, 343-347
  endpoint_total,      \* sync.py:172, 336
  total_records,       \* sync.py:173, 217, 308-312
  params,              \* sync.py:177 (aliases static_params)
  parent_data,         \* sync.py:199-206
  parent_idx,          \* position of the parent loop, sync.py:209
  page,                \* sync.py:214
  offset,              \* sync.py:215
  session_id,          \* sync.py:218
  \* history of the run, written only
  windows,             \* windows processed for the current stream
  parent_calls,        \* parent listing requests for the current stream
  parent_listing,      \* what the parent endpoint returned for this window
  runs,                \* parent ids handed to the page loop in this window
  window_requests,     \* child requests issued in this window
  requests,            \* requests of the current page loop
  page0,               \* what the page-0 response of this page loop declared
  tokens_all,          \* every response of this page loop carried a token
  batch,               \* the last call of process_records
  call,                \* the last call of an operation applied on its own
  written,             \* the last value handed to write_bookmark in this sync
  accepted_total       \* sum of the record counts process_records returned

vars ==
  << selected_streams, start_date, attribution_window, date_window_size, state,
     persisted, pc, stream_idx, last_datetime, max_bookmark_value,
     days_interval, start_window, end_window, endpoint_total, total_records,
     params, parent_data, parent_idx, page, offset, session_id, windows,
     parent_calls, parent_listing, runs, window_requests, requests, page0,
     tokens_all, batch, call, written, accepted_total >>

config_vars ==
  << selected_streams, start_date, attribution_window, date_window_size >>

stream_name == selected_streams[stream_idx]
endpoint_config == STREAMS[stream_name]

NoParams ==
  [from_date |-> NoValue, to_date |-> NoValue, page_size |-> FALSE,
   session_id |-> Absent, page |-> NoValue]

NoBatch ==
  [called |-> FALSE, records |-> <<>>, emitted |-> <<>>,
   max_before |-> NoValue, max_after |-> NoValue]

NoPage0 == [seen |-> FALSE, total |-> NoValue, has_records |-> FALSE]

NoCall == [op |-> "none"]

Init ==
  \E sel \in SelectedStreamLists, bookmarked \in BOOLEAN :
  \E c \in Configs(sel) :
    /\ selected_streams = sel
    /\ attribution_window = c.aw
    /\ date_window_size = c.dws
    /\ start_date = IF bookmarked THEN now_datetime - c.age - 1
                                  ELSE now_datetime - c.age
    /\ state = [bookmarks |->
                  [s \in StreamNames |->
                     IF bookmarked /\ STREAMS[s].bookmark_field
                     THEN now_datetime - c.age ELSE NoValue],
                currently_syncing |->
                  IF bookmarked THEN "export" ELSE Absent]
    /\ persisted = state
    /\ pc = "sync"
    /\ stream_idx = 1
    /\ last_datetime = NoValue
    /\ max_bookmark_value = NoValue
    /\ days_interval = c.dws
    /\ start_window = NoValue
    /\ end_window = NoValue
    /\ endpoint_total = 0
    /\ total_records = 0
    /\ params = NoParams
    /\ parent_data = <<>>
    /\ parent_idx = 1
    /\ page = 0
    /\ offset = 0
    /\ session_id = "initial"
    /\ windows = <<>>
    /\ parent_calls = 0
    /\ parent_listing = <<>>
    /\ runs = <<>>
    /\ window_requests = 0
    /\ requests = <<>>
    /\ page0 = NoPage0
    /\ tokens_all = TRUE
    /\ batch = NoBatch
    /\ call = NoCall
    /\ written = NoValue
    /\ accepted_total = 0


\* ----------------------------------------------------------------- actions
\* sync.py:381-382  nothing is selected
ReturnEmpty ==
  /\ pc = "sync"
  /\ selected_streams = <<>>
  /\ pc' = "done"
  /\ UNCHANGED << config_vars, call, written, accepted_total, state, persisted, stream_idx, last_datetime,
                  max_bookmark_value, days_interval, start_window, end_window,
                  endpoint_total, total_records, params, parent_data,
                  parent_idx, page, offset, session_id, windows, parent_calls, parent_listing,
                  runs, window_requests, requests, page0, tokens_all, batch >>

\* sync.py:385-403 and sync.py:121-173: mark the stream as currently syncing
\* and persist, read the bookmark, plan the first window.
StartStream ==
  /\ pc = "sync"
  /\ stream_idx <= Len(selected_streams)
  /\ LET cfg == endpoint_config
         st == update_currently_syncing(state, stream_name)
         last == get_bookmark(st, stream_name, start_date)
         interval == plan_days_interval(cfg, date_window_size, last)
         start == plan_start_window(cfg, last, attribution_window)
     IN  /\ state' = st
         /\ persisted' = st
         /\ last_datetime' = last
         /\ max_bookmark_value' = last
         /\ days_interval' = interval
         /\ start_window' = start
         /\ end_window' = plan_end_window(cfg, start, interval)
  /\ endpoint_total' = 0
  /\ total_records' = 0
  /\ params' = NoParams
  /\ parent_data' = <<>>
  /\ parent_idx' = 1
  /\ windows' = <<>>
  /\ parent_calls' = 0
  /\ parent_listing' = <<>>
  /\ runs' = <<>>
  /\ window_requests' = 0
  /\ requests' = <<>>
  /\ page0' = NoPage0
  /\ tokens_all' = TRUE
  /\ batch' = NoBatch
  /\ written' = NoValue
  /\ pc' = "window_loop"
  /\ accepted_total' = 0
  /\ UNCHANGED << config_vars, call, stream_idx, page, offset, session_id >>

\* sync.py:176-207: enter the next window, set the date range parameters,
\* fetch the parent listing or take the synthetic parent.
BeginWindow ==
  /\ pc = "window_loop"
  /\ start_window < now_datetime
  /\ \E listing \in IF endpoint_config.parent THEN ParentListings ELSE {<<>>} :
       /\ parent_listing' = listing
       /\ parent_data' = resolve_parent_data(endpoint_config, listing)
  /\ parent_calls' = IF endpoint_config.parent THEN parent_calls + 1
                                               ELSE parent_calls
  /\ params' = window_params(endpoint_config, params, start_window, end_window)
  /\ parent_idx' = 1
  /\ windows' = Append(windows, [start |-> start_window, end |-> end_window])
  /\ runs' = <<>>
  /\ window_requests' = 0
  /\ requests' = <<>>
  /\ page0' = NoPage0
  /\ tokens_all' = TRUE
  /\ batch' = NoBatch
  /\ pc' = "parent_loop"
  /\ UNCHANGED << config_vars, call, written, accepted_total, state, persisted, stream_idx, last_datetime,
                  max_bookmark_value, days_interval, start_window, end_window,
                  endpoint_total, total_records, page, offset, session_id >>

\* sync.py:209-220: take the next parent record and reset the page cursor.
BeginParent ==
  /\ pc = "parent_loop"
  /\ ~parents_exhausted(parent_idx, parent_data)
  /\ page' = 0
  /\ offset' = 0
  /\ total_records' = 0
  /\ session_id' = "initial"
  /\ params' = IF endpoint_config.pagination
               THEN [params EXCEPT !.page_size = TRUE] ELSE params
  /\ runs' = Append(runs, parent_data[parent_idx])
  /\ requests' = <<>>
  /\ page0' = NoPage0
  /\ tokens_all' = TRUE
  /\ batch' = NoBatch
  /\ pc' = "page_loop"
  /\ UNCHANGED << config_vars, call, written, accepted_total, state, persisted, stream_idx, last_datetime,
                  max_bookmark_value, days_interval, start_window, end_window,
                  endpoint_total, parent_data, parent_idx, windows,
                  parent_calls, parent_listing, window_requests >>

\* sync.py:222-336: one request of the page loop and all that is done with
\* its response.
RequestPage ==
  /\ pc = "page_loop"
  /\ continue_paging(offset, total_records, session_id)
  /\ \E data \in Responses(endpoint_config, last_datetime) :
       LET cfg == endpoint_config
           sent == page_params(cfg, params, page, session_id)
           recs == transformed_data(cfg, data)
           res == process_records(recs, cfg.bookmark_field,
                                  max_bookmark_value, last_datetime)
           record_count == Len(res.emitted) + data.more
           total == IF page = 0
                    THEN page0_total_records(cfg, data, record_count)
                    ELSE total_records
       IN  /\ params' = sent
           /\ requests' = Append(requests,
                [parent_id |-> parent_data[parent_idx], offset |-> offset,
                 page |-> page, params |-> sent,
                 ids_ok |-> \A k \in 1..Len(recs) : recs[k].id_ok,
                 returned |-> data.session_id])
           /\ window_requests' = window_requests + 1
           /\ tokens_all' = (tokens_all /\ data.session_id # None)
           /\ page0' = IF page = 0
                       THEN [seen |-> TRUE, total |-> data.total,
                             has_records |-> recs # <<>>]
                       ELSE page0
           /\ IF recs # <<>> /\ missing_key(recs)
              THEN \* sync.py:286-293  raise: the run aborts
                   /\ pc' = "aborted"
                   /\ batch' = NoBatch
                   /\ UNCHANGED << max_bookmark_value, total_records,
                                   session_id, offset, page, endpoint_total,
                                   accepted_total >>
              ELSE IF recs = <<>>
              THEN \* sync.py:250-252, 282-284  nothing to process
                   /\ pc' = "page_loop"
                   /\ batch' = NoBatch
                   /\ offset' = offset + limit
                   /\ page' = page + 1
                   /\ endpoint_total' = endpoint_total + total_records
                   /\ UNCHANGED << max_bookmark_value, total_records,
                                   session_id, accepted_total >>
              ELSE \* sync.py:295-336
                   /\ pc' = "page_loop"
                   /\ max_bookmark_value' = res.max_bookmark_value
                   /\ batch' = [called |-> TRUE, records |-> recs,
                                emitted |-> res.emitted,
                                max_before |-> max_bookmark_value,
                                max_after |-> res.max_bookmark_value]
                   /\ total_records' = total
                   /\ session_id' = next_session_id(cfg, data, session_id)
                   /\ offset' = offset + limit
                   /\ page' = page + 1
                   /\ endpoint_total' = endpoint_total + total
                   /\ accepted_total' = accepted_total + record_count
  /\ UNCHANGED << config_vars, call, written, state, persisted, stream_idx, last_datetime,
                  days_interval, start_window, end_window, parent_data,
                  parent_idx, windows, parent_calls, parent_listing, runs >>

\* sync.py:222, 339: the page loop of this parent is over.
EndPageLoop ==
  /\ pc = "page_loop"
  /\ ~continue_paging(offset, total_records, session_id)
  /\ parent_idx' = parent_idx + 1
  /\ batch' = NoBatch
  /\ pc' = "parent_loop"
  /\ UNCHANGED << config_vars, call, written, accepted_total, state, persisted, stream_idx, last_datetime,
                  max_bookmark_value, days_interval, start_window, end_window,
                  endpoint_total, total_records, params, parent_data, page,
                  offset, session_id, windows, parent_calls, parent_listing, runs,
                  window_requests, requests, page0, tokens_all >>

\* sync.py:341-351: advance the window, write and persist the bookmark.
EndWindow ==
  /\ pc = "parent_loop"
  /\ parents_exhausted(parent_idx, parent_data)
  /\ start_window' = end_window
  /\ end_window' = next_end_window(end_window, days_interval)
  /\ IF endpoint_config.bookmark_field
     THEN /\ state' = write_bookmark(state, stream_name, max_bookmark_value)
          /\ persisted' = state'
          /\ written' = max_bookmark_value
     ELSE UNCHANGED << state, persisted, written >>
  /\ pc' = "window_loop"
  /\ UNCHANGED << config_vars, call, accepted_total, stream_idx, last_datetime, max_bookmark_value,
                  days_interval, endpoint_total, total_records, params,
                  parent_data, parent_idx, page, offset, session_id, windows,
                  parent_calls, parent_listing, runs, window_requests, requests, page0,
                  tokens_all, batch >>

\* sync.py:176, 356 and sync.py:405: the windows are done; clear the
\* currently-syncing marker, persist, go to the next stream.
FinishStream ==
  /\ pc = "window_loop"
  /\ ~(start_window < now_datetime)
  /\ state' = update_currently_syncing(state, None)
  /\ persisted' = state'
  /\ stream_idx' = stream_idx + 1
  /\ pc' = IF stream_idx + 1 > Len(selected_streams) THEN "done" ELSE "sync"
  /\ UNCHANGED << config_vars, call, written, accepted_total, last_datetime, max_bookmark_value,
                  days_interval, start_window, end_window, endpoint_total,
                  total_records, params, parent_data, parent_idx, page, offset,
                  session_id, windows, parent_calls, parent_listing, runs, window_requests,
                  requests, page0, tokens_all, batch >>

Next ==
  \/ ReturnEmpty
  \/ StartStream
  \/ BeginWindow
  \/ BeginParent
  \/ RequestPage
  \/ EndPageLoop
  \/ EndWindow
  \/ FinishStream

Spec == Init /\ [][Next]_vars

\* The runs termination is checked on: one selected stream at most, no
\* stored bookmarks, the default attribution window; every checkpoint age
\* and window size of Configs.
FairInit ==
  /\ Init
  /\ Len(selected_streams) <= 1
  /\ state.currently_syncing = Absent
  /\ attribution_window = 5

\* The control thread of sync() is the only one and runs on as long as
\* every request returns: a step that can be taken is taken.
FairSpec == FairInit /\ [][Next]_vars /\ WF_vars(Next)


\* ------------------------------------------- operations applied on their own
\* The locals of sync_endpoint, untouched while one operation is applied on
\* its own.
engine_vars ==
  << selected_streams, start_date, attribution_window, date_window_size,
     stream_idx, last_datetime, max_bookmark_value, days_interval,
     start_window, end_window, endpoint_total, total_records, params,
     parent_data, parent_idx, page, offset, session_id, windows,
     parent_calls, parent_listing, runs, window_requests, requests, page0,
     tokens_all, batch, written, accepted_total >>

EngineAtRest ==
  /\ selected_streams = <<>>
  /\ start_date = now_datetime
  /\ attribution_window = 5
  /\ date_window_size = 0
  /\ stream_idx = 1
  /\ last_datetime = NoValue
  /\ max_bookmark_value = NoValue
  /\ days_interval = 0
  /\ start_window = NoValue
  /\ end_window = NoValue
  /\ endpoint_total = 0
  /\ total_records = 0
  /\ params = NoParams
  /\ parent_data = <<>>
  /\ parent_idx = 1
  /\ page = 0
  /\ offset = 0
  /\ session_id = "initial"
  /\ windows = <<>>
  /\ parent_calls = 0
  /\ parent_listing = <<>>
  /\ runs = <<>>
  /\ window_requests = 0
  /\ requests = <<>>
  /\ page0 = NoPage0
  /\ tokens_all = TRUE
  /\ batch = NoBatch
  /\ written = NoValue
  /\ accepted_total = 0

\* What a state file can hold under currently_syncing (a stream name or
\* null) or leave out, and the bookmarks next to it.
MarkerValues == StreamNames \cup {None, Absent}

StoredBookmarks ==
  { [s \in StreamNames |-> IF s \in set THEN now_datetime - 1 ELSE NoValue] :
      set \in { {}, {"export"}, {"export", "funnels"} } }

StoredStates == [bookmarks : StoredBookmarks, currently_syncing : MarkerValues]

MarkerInit ==
  /\ EngineAtRest
  /\ state \in StoredStates
  /\ persisted = state
  /\ pc = "update_currently_syncing"
  /\ call = NoCall

\* sync.py:363-368: update_currently_syncing(state, stream_name) with its
\* singer.write_state.
ApplyUpdateCurrentlySyncing ==
  /\ pc = "update_currently_syncing"
  /\ \E name \in StreamNames \cup {None} :
       /\ state' = update_currently_syncing(state, name)
       /\ call' = [op |-> "update_currently_syncing", stream_name |-> name,
                   before |-> state]
  /\ persisted' = state'
  /\ pc' = "returned"
  /\ UNCHANGED engine_vars

MarkerSpec == MarkerInit /\ [][ApplyUpdateCurrentlySyncing]_vars

\* Keys of a date dictionary and the objects under them; an object may
\* already hold a date field.
MaxEntries == 3

DictKeys == {"$overall", "2024-01-01", "2024-01-02", "2024-01-03"}

DictValues ==
  [amount : {1, 2}, date : {Absent, "stale"}, datetime : {Absent}]

DateDictionaries ==
  { items \in UNION { [1..n -> [key : DictKeys, val : DictValues]] :
                        n \in 0..MaxEntries } :
      \A i, j \in 1..Len(items) : items[i].key = items[j].key => i = j }

NormalizeInit ==
  /\ EngineAtRest
  /\ state = [bookmarks |-> [s \in StreamNames |-> NoValue],
              currently_syncing |-> "funnels"]
  /\ persisted = state
  /\ pc = "date_dictionary"
  /\ \E items \in DateDictionaries : call = [op |-> "response", items |-> items]

\* sync.py:261-271: the response of a date-dictionary stream is rebuilt.
ApplyDateDictionary ==
  /\ pc = "date_dictionary"
  /\ call' = [op |-> "date_dictionary", items |-> call.items,
              results_list |-> date_dictionary_results(call.items)]
  /\ pc' = "returned"
  /\ UNCHANGED << engine_vars, state, persisted >>

NormalizeSpec == NormalizeInit /\ [][ApplyDateDictionary]_vars


\* ------------------------------------------------------------------ claims
InStream == pc \in {"window_loop", "parent_loop", "page_loop", "aborted"}

\* The checkpoint a persisted state holds for a stream.
PersistedCheckpoint(stream) == get_bookmark(persisted, stream, start_date)

IsEmitted(rec) == \E k \in 1..Len(batch.emitted) : batch.emitted[k] = rec

\* C1 as stated: every record with a cursor that process_records emits has
\* a cursor >= the cursor value persisted for the stream at that moment.
C1_EmittedAtLeastPersisted ==
  (batch.called /\ endpoint_config.bookmark_field) =>
    \A k \in 1..Len(batch.emitted) :
      HasCursor(batch.emitted[k]) =>
        batch.emitted[k].cursor >= PersistedCheckpoint(stream_name)

\* C1 amended: a record with a cursor is emitted exactly when its cursor is
\* >= the checkpoint the stream's sync started from (last_datetime: the
\* bookmark persisted when the sync began, or start_date), boundary
\* included; that checkpoint is the persisted one during the first window.
C1_EmittedAtLeastStartingCheckpoint ==
  (batch.called /\ endpoint_config.bookmark_field) =>
    /\ \A k \in 1..Len(batch.records) :
         HasCursor(batch.records[k]) =>
           (IsEmitted(batch.records[k])
              <=> batch.records[k].cursor >= last_datetime)
    /\ \A k \in 1..Len(batch.emitted) :
         \E j \in 1..Len(batch.records) : batch.records[j] = batch.emitted[k]
    /\ Len(windows) = 1 => last_datetime = PersistedCheckpoint(stream_name)

\* C1 witness: in a second window, after a bookmark above the starting
\* checkpoint was persisted, a record at the starting checkpoint is emitted
\* and one below it is dropped.
C1_Witness ==
  /\ batch.called
  /\ endpoint_config.bookmark_field
  /\ Len(windows) = 2
  /\ PersistedCheckpoint(stream_name) > last_datetime
  /\ Len(batch.records) = 2
  /\ batch.records[1].cursor = last_datetime - 1
  /\ batch.records[2].cursor = last_datetime
  /\ batch.emitted = << batch.records[2] >>

\* C2: the persisted bookmarks change only in a step taken when every
\* parent of the window has been handed to the page loop and every page
\* loop has ended, never inside a window.
C2_BookmarkOnlyAfterCompletedWindow ==
  [][ persisted'.bookmarks # persisted.bookmarks =>
        /\ pc = "parent_loop"
        /\ pc' = "window_loop"
        /\ runs = parent_data
        /\ parent_idx = Len(parent_data) + 1
        /\ start_window' = end_window ]_vars

\* C2 witness: a window with two parents was completed and its bookmark,
\* above the starting checkpoint, is persisted.
C2_Witness ==
  /\ pc = "window_loop"
  /\ Len(runs) = 2
  /\ window_requests >= 2
  /\ persisted.bookmarks[stream_name] > last_datetime

\* C3: a stream's persisted bookmark is never rewritten to a smaller value
\* and never to one below the checkpoint its sync started from.
C3_PersistedBookmarkMonotonic ==
  [][ \A s \in StreamNames :
        persisted'.bookmarks[s] # persisted.bookmarks[s] =>
          /\ persisted'.bookmarks[s] >= persisted.bookmarks[s]
          /\ persisted'.bookmarks[s] >= last_datetime ]_vars

\* C3 witness: the bookmark was written twice in one sync, the second time
\* after a window whose records did not raise it.
C3_Witness ==
  /\ pc = "window_loop"
  /\ Len(windows) = 2
  /\ start_window = now_datetime
  /\ persisted.bookmarks[stream_name] = last_datetime + 1
  /\ max_bookmark_value = last_datetime + 1

\* C4: after process_records the accumulator is >= the accumulator passed
\* in and >= the cursor of every record emitted from the batch.
C4_AccumulatorIsMaximum ==
  (batch.called /\ endpoint_config.bookmark_field) =>
    /\ batch.max_after >= batch.max_before
    /\ \A k \in 1..Len(batch.emitted) :
         HasCursor(batch.emitted[k]) =>
           batch.max_after >= batch.emitted[k].cursor

\* C4 witness: a batch of two emitted records, the first with the higher
\* cursor, raised the accumulator to the first one's cursor.
C4_Witness ==
  /\ batch.called
  /\ endpoint_config.bookmark_field
  /\ Len(batch.emitted) = 2
  /\ HasCursor(batch.emitted[2])
  /\ batch.emitted[1].cursor > batch.emitted[2].cursor
  /\ batch.max_after = batch.emitted[1].cursor
  /\ batch.max_after > batch.max_before


\* ----------------------------------------------------- claims about windows
Min(a, b) == IF a <= b THEN a ELSE b
Max(a, b) == IF a >= b THEN a ELSE b

\* EndWindow has just run: the histories are those of the window it closed.
WindowCompleted == pc = "window_loop" /\ windows # <<>>

\* The window loop of the current stream is over.
WindowsDone == pc = "window_loop" /\ ~(start_window < now_datetime)

\* The windows processed so far are consecutive, non-empty, end no later
\* than now, begin at from and, once the loop is over, end at now.
Covers(from) ==
  /\ windows # <<>> => windows[1].start = from
  /\ \A k \in 1..Len(windows) :
       /\ windows[k].start < windows[k].end
       /\ windows[k].end <= now_datetime
  /\ \A k \in 1..(Len(windows) - 1) : windows[k + 1].start = windows[k].end
  /\ WindowsDone =>
       IF windows = <<>> THEN from >= now_datetime
       ELSE windows[Len(windows)].end = now_datetime

\* C5 as stated, read for the streams it fits best (a date range query, an
\* attribution window of at most 365 days): the windows cover
\* [effective_start, now) with effective_start = now - clamp(now -
\* checkpoint, attribution_window days, 365 days), the difference taken
\* exactly.
C5_WindowsCoverClampedRange ==
  (InStream /\ endpoint_config.bookmark_query
     /\ attribution_window <= MaxLookbackDays) =>
    Covers(now_datetime
           - Min(Max(now_datetime - last_datetime, Days(attribution_window)),
                 Days(MaxLookbackDays)))

\* The start sync_endpoint plans: for a stream with a date range query,
\* now - d days, d the whole days since the checkpoint, replaced by the
\* attribution window when d <= attribution_window and else by 365 when
\* d >= 365; for any other stream the checkpoint itself.
PlannedStart ==
  IF endpoint_config.bookmark_query
  THEN LET d == (now_datetime - last_datetime) \div UnitsPerDay
       IN  IF d <= attribution_window
           THEN now_datetime - Days(attribution_window)
           ELSE IF d >= 365 THEN now_datetime - Days(365)
           ELSE now_datetime - Days(d)
  ELSE last_datetime

\* C5 amended: the windows cover [PlannedStart, now) with no gap and no
\* overlap, no window end exceeds now and the last window ends at now.
C5_WindowsCoverPlannedRange == InStream => Covers(PlannedStart)

\* C5 witness: two windows were processed for a checkpoint that lies a
\* fraction of a day beyond a whole number of days, and the loop is over.
C5_Witness ==
  /\ WindowsDone
  /\ endpoint_config.bookmark_query
  /\ Len(windows) = 2
  /\ (now_datetime - last_datetime) % UnitsPerDay # 0
  /\ windows[1].start > last_datetime
  /\ windows[2].end = now_datetime

\* C6 as stated: whenever now - checkpoint is less than attribution_window
\* days, the first window starts at now - attribution_window days.
C6_FirstWindowAtAttributionStart ==
  (InStream /\ windows # <<>>
     /\ now_datetime - last_datetime < Days(attribution_window)) =>
    windows[1].start = now_datetime - Days(attribution_window)

\* C6 amended: that holds for a stream with a date range query; the first
\* window of any other stream starts at the checkpoint.
C6_FirstWindowAtAttributionStartForDateRange ==
  (InStream /\ windows # <<>>
     /\ now_datetime - last_datetime < Days(attribution_window)) =>
    IF endpoint_config.bookmark_query
    THEN windows[1].start = now_datetime - Days(attribution_window)
    ELSE windows[1].start = last_datetime

\* C6 witness: a date range stream whose checkpoint is younger than the
\* attribution window starts before its checkpoint.
C6_Witness ==
  /\ InStream
  /\ windows # <<>>
  /\ endpoint_config.bookmark_query
  /\ attribution_window = 5
  /\ now_datetime - last_datetime = Days(5) - 1
  /\ windows[1].start = now_datetime - Days(5)
  /\ windows[1].start < last_datetime

PageLoopOver ==
  pc = "page_loop" /\ ~continue_paging(offset, total_records, session_id)

\* The requests of the page loop were issued at offsets 0, L, 2L, ... and
\* there are n of them.
RequestsAtOffsets(n, L) ==
  /\ Len(requests) = n
  /\ \A k \in 1..Len(requests) : requests[k].offset = (k - 1) * L

\* C8 as stated: with a total T declared on page 0 and a token on every
\* response, the requests are those at offsets 0, L, 2L, ... <= T; with
\* T = 10 there are exactly 3 of them (page size 4).
C8_PagesUntilDeclaredTotal ==
  (PageLoopOver /\ endpoint_config.pagination /\ page0.seen
     /\ page0.total # NoValue /\ tokens_all) =>
    /\ RequestsAtOffsets((page0.total \div limit) + 1, limit)
    /\ page0.total = 10 => Len(requests) = 3

\* C8 amended: the page size is the fixed limit of 250 and the declared
\* total is read only when page 0 yields at least one record; then the
\* requests are those at offsets 0, 250, 500, ... <= T: one request for
\* T = 10, three (offsets 0, 250, 500) for T = 500.
C8_PagesUntilDeclaredTotalFixedLimit ==
  (PageLoopOver /\ endpoint_config.pagination /\ page0.seen
     /\ page0.total # NoValue /\ page0.has_records /\ tokens_all) =>
    /\ RequestsAtOffsets((page0.total \div 250) + 1, 250)
    /\ page0.total = 10 => Len(requests) = 1
    /\ page0.total = 500 => Len(requests) = 3

\* C8 witness: a page loop with declared total 500 and a token on every
\* response ended after the requests at offsets 0, 250 and 500.
C8_Witness ==
  /\ PageLoopOver
  /\ endpoint_config.pagination
  /\ page0.total = 500
  /\ page0.has_records
  /\ tokens_all
  /\ Len(requests) = 3
  /\ requests[3].offset = 500
  /\ offset = 750

\* C9: for a stream with a parent endpoint the listing is requested once
\* per window, the page loop is run for the listed parents in the listed
\* order, for all of them once the window is completed, and every request
\* of a run carries the id of that run's parent.
C9_OnePageLoopPerListedParent ==
  (InStream /\ windows # <<>> /\ endpoint_config.parent) =>
    /\ parent_calls = Len(windows)
    /\ Len(runs) <= Len(parent_listing)
    /\ \A k \in 1..Len(runs) : runs[k] = parent_listing[k]
    /\ \A k \in 1..Len(requests) : requests[k].parent_id = runs[Len(runs)]
    /\ WindowCompleted =>
         /\ runs = parent_listing
         /\ window_requests >= Len(parent_listing)

\* C9 witness: a window whose listing returned two parents is completed and
\* the page loop has run for both, in the listed order.
C9_Witness ==
  /\ WindowCompleted
  /\ endpoint_config.parent
  /\ parent_listing = <<"p2", "p1">>
  /\ runs = <<"p2", "p1">>
  /\ window_requests >= 2
  /\ requests # <<>>
  /\ requests[1].parent_id = "p1"

\* C10 as stated: in every window the page loop is handed at least one
\* parent record, so every completed window has issued a child request.
C10_ParentSequenceNeverEmpty ==
  /\ pc \in {"parent_loop", "page_loop"} => parent_data # <<>>
  /\ WindowCompleted => window_requests >= 1

\* C10 amended: a flat stream hands the page loop exactly the synthetic
\* parent, so every completed window of it has issued a child request; a
\* parent-scoped stream hands it the listing as returned, empty or not,
\* and a completed window has issued at least one request per record of it.
C10_ParentSequenceIsSyntheticOrListing ==
  (InStream /\ windows # <<>>) =>
    /\ parent_data = IF endpoint_config.parent THEN parent_listing
                                               ELSE <<"none">>
    /\ WindowCompleted => window_requests >= Len(parent_data)
    /\ (WindowCompleted /\ ~endpoint_config.parent) => window_requests >= 1

\* C10 witness: a completed window of a flat stream, with its one request
\* for the synthetic parent.
C10_Witness ==
  /\ WindowCompleted
  /\ ~endpoint_config.parent
  /\ parent_data = <<"none">>
  /\ runs = <<"none">>
  /\ window_requests = 1

\* C11: after update_currently_syncing(state, S) the persisted state reports
\* S as the stream to resume; after update_currently_syncing(state, None),
\* with or without a marker before, it reports none; the bookmarks are
\* left as they were.
C11_MarkerReportsLastUpdate ==
  call.op = "update_currently_syncing" =>
    /\ persisted = state
    /\ call.stream_name # None =>
         get_currently_syncing(persisted) = call.stream_name
    /\ call.stream_name = None => get_currently_syncing(persisted) = None
    /\ persisted.bookmarks = call.before.bookmarks

\* C11 witness: the marker was cleared in a state that held none, which
\* stores a null marker; the persisted state reports no stream.
C11_Witness ==
  /\ call.op = "update_currently_syncing"
  /\ call.stream_name = None
  /\ call.before.currently_syncing = Absent
  /\ persisted.currently_syncing = None
  /\ get_currently_syncing(persisted) = None

\* C12: a page with a record that lacks an identifying field aborts the
\* run: process_records is not called for that page, the state is neither
\* changed nor persisted, the persisted state names the stream as currently
\* syncing and holds the bookmark written after the last completed window
\* (the starting checkpoint when none was written); nothing follows.
C12_MissingKeyAborts ==
  [][ /\ (Len(requests') = Len(requests) + 1
            /\ ~requests'[Len(requests')].ids_ok) =>
           /\ pc' = "aborted"
           /\ ~batch'.called
           /\ state' = state
           /\ persisted' = persisted
           /\ get_currently_syncing(persisted') = stream_name
           /\ IF written # NoValue
              THEN persisted'.bookmarks[stream_name] = written
              ELSE PersistedCheckpoint(stream_name)' = last_datetime
      /\ pc = "aborted" => UNCHANGED vars ]_vars

\* C12 witness: the run aborted on a later page of the second window, after
\* the first window's bookmark was persisted.
C12_Witness ==
  /\ pc = "aborted"
  /\ Len(windows) = 2
  /\ written # NoValue
  /\ persisted.bookmarks[stream_name] = written
  /\ max_bookmark_value > written
  /\ persisted.currently_syncing = stream_name
  /\ ~requests[Len(requests)].ids_ok

\* C13: the normalization of a date dictionary yields exactly one record
\* per key other than $overall, in the order of the keys, each with date =
\* its key, datetime = its key followed by T00:00:00Z and the other fields
\* of its object; no record comes from the $overall entry.
C13_OneRecordPerDateKey ==
  call.op = "date_dictionary" =>
    LET items == call.items
        out == call.results_list
        dated == { k \in 1..Len(items) : items[k].key # "$overall" }
    IN  /\ Len(out) = Cardinality(dated)
        /\ \A k \in dated :
             /\ Cardinality({ j \in 1..Len(out) : out[j].date = items[k].key }) = 1
             /\ \E j \in 1..Len(out) :
                  /\ out[j].date = items[k].key
                  /\ out[j].datetime = items[k].key \o "T00:00:00Z"
                  /\ out[j].amount = items[k].val.amount
        /\ \A j \in 1..Len(out) : out[j].date # "$overall"

\* C13 witness: a dictionary with the summary entry between two dates, one
\* of them holding a stale date, gives the two dated records.
C13_Witness ==
  /\ call.op = "date_dictionary"
  /\ Len(call.items) = 3
  /\ call.items[1].key = "2024-01-01"
  /\ call.items[1].val.date = "stale"
  /\ call.items[2].key = "$overall"
  /\ call.items[3].key = "2024-01-02"
  /\ Len(call.results_list) = 2
  /\ call.results_list[1].date = "2024-01-01"
  /\ call.results_list[1].datetime = "2024-01-01T00:00:00Z"
  /\ call.results_list[2].datetime = "2024-01-02T00:00:00Z"

\* C14 as stated: the page-0 request of every page loop carries neither a
\* page index nor a continuation token; a request of a later page carries
\* its own page index and the token the preceding response of the same
\* page loop returned.
C14_PageParamsOnlyAfterPageZero ==
  \A k \in 1..Len(requests) :
    IF requests[k].page = 0
    THEN /\ requests[k].params.page = NoValue
         /\ requests[k].params.session_id = Absent
    ELSE /\ requests[k].params.page = requests[k].page
         /\ requests[k].params.session_id = requests[k - 1].returned

\* C14 failing state: the page-0 request of the second parent of a window
\* carries the page index and the token of the first parent's last request.
C14_LeftoverOnSecondParent ==
  /\ pc = "page_loop"
  /\ Len(runs) = 2
  /\ Len(requests) = 1
  /\ requests[1].page = 0
  /\ requests[1].parent_id = "p1"
  /\ requests[1].params.page = 1
  /\ requests[1].params.session_id = "t1"

\* C15 as stated: the page loop of a stream that does not paginate issues
\* exactly one request, whatever the response holds.
C15_OneRequestWithoutPagination ==
  (pc = "page_loop" /\ ~endpoint_config.pagination) =>
    /\ Len(requests) <= 1
    /\ PageLoopOver => Len(requests) = 1

\* C15 failing state: a bare list of at least 250 records was answered to
\* page 0 and the same request was issued again.
C15_SecondRequestAfterLongList ==
  /\ pc = "page_loop"
  /\ ~endpoint_config.pagination
  /\ Len(requests) = 2
  /\ requests[2].params = requests[1].params
  /\ total_records >= limit
  /\ session_id = "initial"

\* C16 as stated: once a response of a page loop carried no continuation
\* token, that page loop issues no further request.
C16_NoRequestAfterTokenlessPage ==
  \A k \in 1..Len(requests) :
    requests[k].returned = None => k = Len(requests)

\* C16 failing state: a paginating stream got a token and a total of 500
\* on page 0, nothing with a token on page 1, and requested page 2 with
\* the token of page 0.
C16_RequestAfterTokenlessPage ==
  /\ pc = "page_loop"
  /\ endpoint_config.pagination
  /\ Len(requests) = 3
  /\ requests[1].returned = "t1"
  /\ requests[2].returned = None
  /\ requests[3].page = 2
  /\ requests[3].params.session_id = "t1"

\* A step that issues a request, hands records to process_records or
\* changes the persisted bookmarks.
StreamActivity ==
  \/ window_requests' > window_requests
  \/ parent_calls' > parent_calls
  \/ batch'.called
  \/ persisted'.bookmarks # persisted.bookmarks

\* The streams are taken one at a time in the selected order, the marker
\* is persisted as S when S is started, and every activity for S is done
\* under a persisted marker S.
OneStreamAtATimeUnderMarker ==
  /\ stream_idx' \in {stream_idx, stream_idx + 1}
  /\ stream_idx' # stream_idx => (WindowsDone /\ pc' \in {"sync", "done"})
  /\ (pc = "sync" /\ pc' = "window_loop") =>
       /\ stream_idx' = stream_idx
       /\ get_currently_syncing(persisted') = selected_streams[stream_idx]
  /\ StreamActivity =>
       /\ InStream
       /\ stream_idx' = stream_idx
       /\ get_currently_syncing(persisted) = stream_name
       /\ get_currently_syncing(persisted') = stream_name

\* C17 as stated: streams are synced one at a time in the selected order
\* under their persisted marker, and whenever sync has returned normally
\* the persisted state names no currently-syncing stream.
C17_MarkerClearedOnReturn ==
  [][ /\ OneStreamAtATimeUnderMarker
      /\ pc' = "done" => get_currently_syncing(persisted') = None ]_vars

\* C17 amended: streams are synced one at a time in the selected order
\* under their persisted marker, and when sync returns normally after
\* syncing at least one stream the persisted state names no
\* currently-syncing stream; with no stream selected sync returns without
\* persisting anything, so a marker of the input state stays.
C17_MarkerClearedAfterLastStream ==
  [][ /\ OneStreamAtATimeUnderMarker
      /\ (pc' = "done" /\ selected_streams # <<>>) =>
           get_currently_syncing(persisted') = None
      /\ (pc' = "done" /\ selected_streams = <<>>) =>
           persisted' = persisted ]_vars

\* C17 witness: two selected streams were synced in order, the second one
\* wrote its bookmark, and sync returned with the marker cleared.
C17_Witness ==
  /\ pc = "done"
  /\ selected_streams = << "cohorts", "export" >>
  /\ stream_idx = 3
  /\ written # NoValue
  /\ persisted.bookmarks["export"] = written
  /\ persisted.currently_syncing = Absent

\* The step that ends the sync of a stream normally and clears its marker.
StreamCompletes == WindowsDone /\ stream_idx' = stream_idx + 1

\* C18 as stated, for the streams that have a cursor field: when the sync
\* of the stream completes, the persisted state already holds the final
\* running max-cursor value as its bookmark, and still does once the
\* marker is cleared.
C18_FinalMaxPersistedAtCompletion ==
  [][ (StreamCompletes /\ endpoint_config.bookmark_field) =>
        /\ persisted.bookmarks[stream_name] = max_bookmark_value
        /\ get_currently_syncing(persisted) = stream_name
        /\ persisted'.bookmarks[stream_name] = max_bookmark_value
        /\ get_currently_syncing(persisted') = None ]_vars

\* C18 amended: when the sync of a stream with a cursor field completes
\* after at least one window, the persisted state holds the final running
\* max-cursor value (never below the starting checkpoint) as its bookmark,
\* persisted at the end of the last window, before the marker is cleared;
\* a stream without a cursor field, or one whose first window would start
\* at now or later, gets no bookmark write: its persisted bookmark is
\* what it was before the run.
C18_FinalMaxPersistedAfterLastWindow ==
  [][ StreamCompletes =>
        /\ get_currently_syncing(persisted) = stream_name
        /\ get_currently_syncing(persisted') = None
        /\ persisted'.bookmarks = persisted.bookmarks
        /\ max_bookmark_value >= last_datetime
        /\ IF endpoint_config.bookmark_field /\ windows # <<>>
           THEN /\ written = max_bookmark_value
                /\ persisted.bookmarks[stream_name] = max_bookmark_value
           ELSE /\ written = NoValue
                /\ PersistedCheckpoint(stream_name) = last_datetime ]_vars

\* C18 witness: a stream completed after two windows; its bookmark, raised
\* above the starting checkpoint, is persisted and the marker is cleared.
C18_Witness ==
  /\ pc = "done"
  /\ selected_streams = << "funnels" >>
  /\ Len(windows) = 2
  /\ max_bookmark_value > last_datetime
  /\ persisted.bookmarks["funnels"] = max_bookmark_value
  /\ persisted.currently_syncing = Absent

\* C19 as stated: the total sync_endpoint returns is the sum of the record
\* counts process_records returned for the pages of the stream.
C19_ReturnedTotalIsAcceptedSum ==
  WindowsDone => endpoint_total = accepted_total

\* C19 failing state: one paginated page loop of two requests, three
\* records accepted in all, and a returned total of twice the declared
\* total of 500.
C19_DeclaredTotalAddedPerPage ==
  /\ WindowsDone
  /\ endpoint_config.pagination
  /\ window_requests = 2
  /\ accepted_total = 3
  /\ endpoint_total = 1000

\* C20: with every request answered, the sync of a stream terminates: a
\* page loop issues at most floor(total_records / 250) + 1 requests,
\* total_records changes only with the response to page 0, every window
\* starts after the one before, and sync comes to its end, by completion
\* of every selected stream or by an abort.
C20_SyncOfStreamTerminates ==
  /\ [](pc = "page_loop" => Len(requests) <= (total_records \div limit) + 1)
  /\ [][ (pc = "page_loop" /\ total_records' # total_records) =>
           (page = 0 /\ pc' # "sync") ]_vars
  /\ [][ (pc = "parent_loop" /\ pc' = "window_loop") =>
           start_window' > start_window ]_vars
  /\ <>(pc \in {"done", "aborted"})

\* C20 witness: a stream was completed whose page loop took the three
\* requests a declared total of 500 allows.
C20_Witness ==
  /\ pc = "done"
  /\ selected_streams = << "engage" >>
  /\ total_records = 500
  /\ Len(requests) = 3
  /\ requests[3].offset = 500
  /\ ~(start_window < now_datetime)

\* C21: a step changes the bookmark of a stream, in the state and in the
\* persisted state, only for the stream being synced and only if that
\* stream has a cursor field; the bookmark of every other stream, and of a
\* stream without a cursor field, stays what it was; the only other part
\* of the state that changes is the currently_syncing marker.
C21_OnlyOwnBookmarkChanges ==
  [][ /\ \A s \in StreamNames :
           (persisted'.bookmarks[s] # persisted.bookmarks[s]
              \/ state'.bookmarks[s] # state.bookmarks[s]) =>
             /\ InStream
             /\ s = stream_name
             /\ STREAMS[s].bookmark_field
      /\ DOMAIN persisted' = {"bookmarks", "currently_syncing"}
      /\ persisted'.currently_syncing # persisted.currently_syncing =>
           pc' \in {"window_loop", "sync", "done"} ]_vars

\* C21 witness: cohorts, which has no cursor field, and then export were
\* synced; export's bookmark was raised, the stored bookmark of funnels is
\* the one of the input state and cohorts has no entry.
C21_Witness ==
  /\ pc = "done"
  /\ selected_streams = << "cohorts", "export" >>
  /\ written > last_datetime
  /\ persisted.bookmarks["export"] = written
  /\ persisted.bookmarks["funnels"] = last_datetime
  /\ persisted.bookmarks["cohorts"] = NoValue
  /\ accepted_total > 0

====
